---- MODULE Spec2Model ----
(***************************************************************************)
(* The solar-system component of src/src/App.jsx as a state machine.       *)
(*                                                                         *)
(* Units.  Angles and angular speeds are integers in units of 0.0005 rad   *)
(* (every speed of the planet table and every slider value is a multiple   *)
(* of it).  Sines, cosines and normalised device coordinates are in        *)
(* thousandths, so a mesh coordinate is in thousandths of a scene unit.    *)
(* Sphere radii are in tenths of a scene unit.                             *)
(*                                                                         *)
(* Scheduling.  JavaScript runs one task at a time: an animation frame, a  *)
(* pointer event or a resize event never runs in the middle of the effect  *)
(* or of its cleanup.  The effect and the cleanup are split at the calls   *)
(* that touch the page (pc names the position), with nothing interleaved.  *)
(***************************************************************************)
EXTENDS Integers, Sequences, FiniteSets

\* ------------------------------------------------------------------ bounds

\* scene instances constructed in one run (mount + reconstructions)
MaxInstances == 3
\* frame callbacks the browser runs in one run, over all animate closures
MaxFrames == 2
\* distinct outcomes of the eight Math.random() draws of one construction
NumSeeds == 2

\* ------------------------------------------------------- the planet table

planetsData ==
  << [name |-> "Mercury", color |-> 11184810, size |-> 3,  distance |-> 4,  speed |-> 80],
     [name |-> "Venus",   color |-> 16755200, size |-> 5,  distance |-> 6,  speed |-> 30],
     [name |-> "Earth",   color |-> 3381759,  size |-> 6,  distance |-> 8,  speed |-> 20],
     [name |-> "Mars",    color |-> 16724736, size |-> 5,  distance |-> 10, speed |-> 16],
     [name |-> "Jupiter", color |-> 16764057, size |-> 11, distance |-> 13, speed |-> 8],
     [name |-> "Saturn",  color |-> 16777113, size |-> 10, distance |-> 16, speed |-> 6],
     [name |-> "Uranus",  color |-> 10092543, size |-> 8,  distance |-> 19, speed |-> 4],
     [name |-> "Neptune", color |-> 4474111,  size |-> 8,  distance |-> 22, speed |-> 3] >>

Planets == 1..Len(planetsData)

Names == { planetsData[k].name : k \in Planets }

IndexOf(n) == CHOOSE k \in Planets : planetsData[k].name = n

\* Object.fromEntries(planetsData.map((p) => [p.name, p.speed]))
InitialSpeeds == [n \in Names |-> planetsData[IndexOf(n)].speed]

\* the range input of every planet: min, max and step
SliderMin == 2
SliderMax == 100
SliderStep == 2

\* the values a range input can deliver: min, min + step, ..., max
SliderRange == { v \in SliderMin..SliderMax : (v - SliderMin) % SliderStep = 0 }

\* the sliders the model operates: the first and the last of the table
SliderNames == { planetsData[k].name : k \in {1, Len(planetsData)} }

\* the values the model lets a slider deliver: both ends of the range
SliderValues == { v \in SliderRange : v \in {SliderMin, SliderMax} }

\* ------------------------------------------------------------ arithmetic

\* Math.PI, in angle units
Pi == 6283

TwoPi == 2 * Pi

\* sin on [0, Pi], in thousandths: 16x(Pi-x) / (5 Pi^2 - 4x(Pi-x)), with
\* numerator and denominator both divided by 100 to stay in 32 bits
SinHalf(x) ==
  LET y == x * (Pi - x)
  IN  (16000 * (y \div 100)) \div ((5 * Pi * Pi - 4 * y) \div 100)

\* Math.sin, in thousandths
Sin(a) ==
  LET r == a % TwoPi
  IN  IF r <= Pi THEN SinHalf(r) ELSE 0 - SinHalf(r - Pi)

\* Math.cos, in thousandths
Cos(a) == Sin(a + (Pi \div 2))

\* denominator of the fractions that stand for Math.random()
RandomDenominator == 16

\* the k-th Math.random() draw of a construction whose draws are numbered
\* seed: a fraction r / RandomDenominator in [0, 1)
Random(seed, k) == (5 * seed + 3 * k) % RandomDenominator

\* Math.random() * Math.PI * 2
RandomAngle(seed, k) == (Random(seed, k) * TwoPi) \div RandomDenominator

Seeds == 1..NumSeeds

\* ----------------------------------------------------------------- state

VARIABLES
  lifecycle,   \* "created" | "mounted" | "unmounting" | "unmounted"
  pc,          \* position inside the effect or its cleanup; "idle" outside
  speeds,      \* useState: planet name -> angular speed
  isPaused,    \* useState: the pause flag
  refs,        \* mountRef.current and tooltipRef.current: "attached" to their divs, or "null"
  inst,        \* one record per run of the effect: what its closures hold
  container,   \* children of the mount div: the canvases, with their instance and size
  listeners,   \* window listeners per event type, by instance number
  win,         \* window.innerWidth and window.innerHeight
  tooltip,     \* the tooltip div: style.display, style.left, style.top, innerHTML
  event,       \* the last mousemove event the window delivered, with what its ray met
  error,       \* the exception that ended the cleanup, if any
  pauseLog     \* the pause flag and the displayed angles when a pair of toggles began

vars == << lifecycle, pc, speeds, isPaused, refs, inst, container, listeners,
           win, tooltip, event, error, pauseLog >>

\* window sizes of the model
WindowSizes == { [innerWidth |-> 800, innerHeight |-> 600],
                 [innerWidth |-> 1000, innerHeight |-> 500] }

\* the window size at the start
InitialWindow == [innerWidth |-> 800, innerHeight |-> 600]

\* the pointer position of the model
Pointers == { [clientX |-> 640, clientY |-> 360] }

\* what a ray from the camera can pass through, nearest first: any objects of
\* the scene.  The camera moves with the orbit controls, so the ray of a
\* pointer position is an input.
Rays == { << >>, <<"starField", "sun">>, <<"sun", "Mars">>, <<"Venus", "Earth">> }

NoEvent == [type |-> "none"]

Unset == << >>

Px(n) == << n, "px" >>

Init ==
  /\ lifecycle = "created"
  /\ pc = "idle"
  /\ speeds = InitialSpeeds
  /\ isPaused = FALSE
  /\ refs = "null"
  /\ inst = << >>
  /\ container = << >>
  /\ listeners = [mousemove |-> << >>, resize |-> << >>]
  /\ win = InitialWindow
  /\ tooltip = [display |-> "", left |-> Unset, top |-> Unset, innerHTML |-> ""]
  /\ event = NoEvent
  /\ error = "none"
  /\ pauseLog = [toggles |-> 0]

\* the instance the pending cleanup and the running effect belong to
Cur == Len(inst)

\* the sequence s without its elements equal to x
Without(s, x) == SelectSeq(s, LAMBDA e : e # x)

\* ---------------------------------------------------------------- effect

\* renderer.domElement of instance i after renderer.setSize(width, height).
\* camera.aspect of the instance is width / height: the two are always set
\* together, at lines 31 and 38 and at lines 128 and 130.
Canvas(i, size) == [instance |-> i, width |-> size.innerWidth, height |-> size.innerHeight]

\* the sequence of canvases without the canvas of instance i
WithoutCanvas(s, i) == SelectSeq(s, LAMBDA c : c.instance # i)

\* SceneChildren without the scene.add(mesh) of the planets
SceneChildren_PlanetsNotAdded == << "light", "sun", "starField" >>

\* scene.children after lines 48, 54, 73 and 80: the light, the sun, the
\* stars and one mesh per planet, each named by its planet
SceneChildren ==
  << "light", "sun", "starField" >> \o [k \in Planets |-> planetsData[k].name]

\* scene, camera, light, sun, stars and planets
NewInstance(seed) ==
  [ speeds   |-> speeds,
    isPaused |-> isPaused,
    scene    |-> SceneChildren,
    planets  |-> [k \in Planets |->
                   [ mesh |-> [id |-> planetsData[k].name,
                               position |-> [x |-> 0, y |-> 0, z |-> 0]],
                     data |-> [ name     |-> planetsData[k].name,
                                color    |-> planetsData[k].color,
                                size     |-> planetsData[k].size,
                                distance |-> planetsData[k].distance,
                                speed    |-> planetsData[k].speed,
                                angle    |-> RandomAngle(seed, k) ] ]],
    initialAngle |-> [k \in Planets |-> RandomAngle(seed, k)],
    raf      |-> FALSE,
    frames   |-> 0,
    staleFrames |-> 0,
    torn     |-> FALSE ]

\* StepPlanet with the position computed before the angle is advanced
StepPlanet_PositionBeforeAngle(I, p) ==
  [ mesh |-> [p.mesh EXCEPT !.position.x = Cos(p.data.angle) * p.data.distance,
                            !.position.z = Sin(p.data.angle) * p.data.distance],
    data |-> [p.data EXCEPT !.angle = p.data.angle + I.speeds[p.data.name]] ]

\* the body of planets.forEach in animate
StepPlanet(I, p) ==
  LET a == p.data.angle + I.speeds[p.data.name]
  IN  [ mesh |-> [p.mesh EXCEPT !.position.x = Cos(a) * p.data.distance,
                                !.position.z = Sin(a) * p.data.distance],
        data |-> [p.data EXCEPT !.angle = a] ]

\* Animate with the position assignments outside the test of isPaused
Animate_PositionsWhenPaused(I) ==
  [ I EXCEPT !.raf = TRUE,
             !.planets = IF ~I.isPaused
                         THEN [k \in Planets |-> StepPlanet(I, I.planets[k])]
                         ELSE [k \in Planets |->
                                LET p == I.planets[k]
                                IN  [p EXCEPT
                                       !.mesh.position.x = Cos(p.data.angle) * p.data.distance,
                                       !.mesh.position.z = Sin(p.data.angle) * p.data.distance]],
             !.frames = I.frames + 1,
             !.staleFrames = IF I.torn THEN I.staleFrames + 1 ELSE I.staleFrames ]

\* one call of animate by the closure of instance record I
Animate(I) ==
  [ I EXCEPT !.raf = TRUE,
             !.planets = IF ~I.isPaused
                         THEN [k \in Planets |-> StepPlanet(I, I.planets[k])]
                         ELSE I.planets,
             !.frames = I.frames + 1,
             !.staleFrames = IF I.torn THEN I.staleFrames + 1 ELSE I.staleFrames ]

\* lines 28-82: the scene is built and the canvas appended to the mount div
EffectBuild ==
  /\ pc = "build"
  /\ \E seed \in Seeds : inst' = Append(inst, NewInstance(seed))
  /\ container' = Append(container, Canvas(Cur + 1, win))
  /\ pc' = "addMousemove"
  /\ UNCHANGED << lifecycle, speeds, isPaused, refs, listeners, win, tooltip,
                  event, error, pauseLog >>

\* line 109
EffectAddMousemove ==
  /\ pc = "addMousemove"
  /\ listeners' = [listeners EXCEPT !.mousemove = Append(Without(@, Cur), Cur)]
  /\ pc' = "animate"
  /\ UNCHANGED << lifecycle, speeds, isPaused, refs, inst, container, win,
                  tooltip, event, error, pauseLog >>

\* line 124: the effect calls animate() itself
EffectAnimate ==
  /\ pc = "animate"
  /\ inst' = [inst EXCEPT ![Cur] = Animate(@)]
  /\ pc' = "addResize"
  /\ UNCHANGED << lifecycle, speeds, isPaused, refs, container, listeners, win,
                  tooltip, event, error, pauseLog >>

\* line 132, and the effect returns its cleanup
EffectAddResize ==
  /\ pc = "addResize"
  /\ listeners' = [listeners EXCEPT !.resize = Append(Without(@, Cur), Cur)]
  /\ pc' = "idle"
  /\ UNCHANGED << lifecycle, speeds, isPaused, refs, inst, container, win,
                  tooltip, event, error, pauseLog >>

\* --------------------------------------------------------------- cleanup

\* CleanupResize with a cancelAnimationFrame of the instance's pending frame
CleanupResize_CancelsFrame ==
  /\ pc = "removeResize"
  /\ listeners' = [listeners EXCEPT !.resize = Without(@, Cur)]
  /\ inst' = [inst EXCEPT ![Cur].torn = TRUE, ![Cur].raf = FALSE]
  /\ pc' = "removeMousemove"
  /\ UNCHANGED << lifecycle, speeds, isPaused, refs, container, win, tooltip,
                  event, error, pauseLog >>

\* line 136
CleanupResize ==
  /\ pc = "removeResize"
  /\ listeners' = [listeners EXCEPT !.resize = Without(@, Cur)]
  /\ inst' = [inst EXCEPT ![Cur].torn = TRUE]
  /\ pc' = "removeMousemove"
  /\ UNCHANGED << lifecycle, speeds, isPaused, refs, container, win, tooltip,
                  event, error, pauseLog >>

\* CleanupMousemove without its removeEventListener call
CleanupMousemove_NotRemoved ==
  /\ pc = "removeMousemove"
  /\ pc' = "removeChild"
  /\ UNCHANGED << lifecycle, speeds, isPaused, refs, inst, container, listeners, win,
                  tooltip, event, error, pauseLog >>

\* line 137
CleanupMousemove ==
  /\ pc = "removeMousemove"
  /\ listeners' = [listeners EXCEPT !.mousemove = Without(@, Cur)]
  /\ pc' = "removeChild"
  /\ UNCHANGED << lifecycle, speeds, isPaused, refs, inst, container, win,
                  tooltip, event, error, pauseLog >>

\* what follows the cleanup: the effect again, or nothing after an unmount
AfterCleanup ==
  /\ pc' = IF lifecycle = "unmounting" THEN "idle" ELSE "build"
  /\ lifecycle' = IF lifecycle = "unmounting" THEN "unmounted" ELSE lifecycle
  /\ refs' = IF lifecycle = "unmounting" THEN "null" ELSE refs

\* line 138: mountRef.current.removeChild(renderer.domElement) throws a
\* TypeError when mountRef.current is null
CleanupRemoveChild ==
  /\ pc = "removeChild"
  /\ IF refs = "null"
     THEN /\ error' = "TypeError"
          /\ UNCHANGED container
     ELSE /\ container' = WithoutCanvas(container, Cur)
          /\ UNCHANGED error
  /\ AfterCleanup
  /\ UNCHANGED << speeds, isPaused, inst, listeners, win, tooltip, event, pauseLog >>

\* ------------------------------------------------------ component events

\* React mounts the component: the refs are attached and the effect runs
Mount ==
  /\ lifecycle = "created"
  /\ lifecycle' = "mounted"
  /\ refs' = "attached"
  /\ pc' = "build"
  /\ UNCHANGED << speeds, isPaused, inst, container, listeners, win, tooltip, event, error,
                  pauseLog >>

\* React unmounts the component: the cleanup runs, with the refs either still
\* attached or already detached, as the React version in use orders the two
Unmount ==
  /\ lifecycle = "mounted"
  /\ pc = "idle"
  /\ lifecycle' = "unmounting"
  /\ refs' \in {"attached", "null"}
  /\ pc' = "removeResize"
  /\ pauseLog' = [toggles |-> 0]
  /\ UNCHANGED << speeds, isPaused, inst, container, listeners, win, tooltip, event, error >>

\* SetSpeed with the key "name" instead of the computed key [name]
SetSpeed_LiteralKey(prev, name, val) ==
  [n \in DOMAIN prev \cup {"name"} |-> IF n = "name" THEN val ELSE prev[n]]

\* SetSpeed writing the value under every key
SetSpeed_EveryKey(prev, name, val) == [n \in DOMAIN prev \cup {name} |-> val]

\* SetSpeed adding the value to the entry instead of replacing it
SetSpeed_Added(prev, name, val) ==
  [n \in DOMAIN prev \cup {name} |-> IF n = name THEN prev[n] + val ELSE prev[n]]

\* setSpeeds((prev) => ({ ...prev, [name]: parseFloat(val) }))
SetSpeed(prev, name, val) == [n \in DOMAIN prev \cup {name} |-> IF n = name THEN val ELSE prev[n]]

\* the range input of planet name changes to val: handleSpeedChange, and
\* the changed dependency makes React run the cleanup and the effect
HandleSpeedChange(name, val) ==
  /\ lifecycle = "mounted"
  /\ pc = "idle"
  /\ Len(inst) < MaxInstances
  /\ speeds' = SetSpeed(speeds, name, val)
  /\ pc' = "removeResize"
  /\ pauseLog' = [toggles |-> 0]
  /\ UNCHANGED << lifecycle, isPaused, refs, inst, container, listeners, win, tooltip,
                  event, error >>

\* the angles on display: those of the planets of the current instance
DisplayedAngles == [k \in Planets |-> inst[Cur].planets[k].data.angle]

\* TogglePause with isPaused missing from the dependency list: no cleanup and
\* no effect follow
TogglePause_NoRerun ==
  /\ lifecycle = "mounted"
  /\ pc = "idle"
  /\ Len(inst) < MaxInstances
  /\ isPaused' = ~isPaused
  /\ pauseLog' = [toggles |-> 0]
  /\ UNCHANGED << lifecycle, pc, speeds, refs, inst, container, listeners, win, tooltip,
                  event, error >>

\* TogglePause that also puts the speeds back to those of the planet table
TogglePause_ResetsSpeeds ==
  /\ lifecycle = "mounted"
  /\ pc = "idle"
  /\ Len(inst) < MaxInstances
  /\ isPaused' = ~isPaused
  /\ speeds' = InitialSpeeds
  /\ pc' = "removeResize"
  /\ pauseLog' = [toggles |-> 0]
  /\ UNCHANGED << lifecycle, refs, inst, container, listeners, win, tooltip,
                  event, error >>

\* a click on pauseBtn: setIsPaused((paused) => !paused), and the changed
\* dependency makes React run the cleanup and the effect
TogglePause ==
  /\ lifecycle = "mounted"
  /\ pc = "idle"
  /\ Len(inst) < MaxInstances
  /\ isPaused' = ~isPaused
  /\ pc' = "removeResize"
  /\ pauseLog' = IF pauseLog.toggles = 1
                 THEN [pauseLog EXCEPT !.toggles = 2]
                 ELSE [toggles |-> 1, isPaused |-> isPaused, angle |-> DisplayedAngles]
  /\ UNCHANGED << lifecycle, speeds, refs, inst, container, listeners, win, tooltip,
                  event, error >>

RECURSIVE SumFrames(_)
SumFrames(s) == IF s = << >> THEN 0 ELSE Head(s).frames + SumFrames(Tail(s))

\* the frames run so far as callbacks: all but the call each effect makes itself
CallbackFrames == SumFrames(inst) - Len(inst)

\* the browser runs the frame callback instance i has requested
Frame(i) ==
  /\ pc = "idle"
  /\ inst[i].raf
  /\ CallbackFrames < MaxFrames
  /\ inst' = [inst EXCEPT ![i] = Animate(@)]
  /\ pauseLog' = IF pauseLog.toggles = 2 /\ i = Cur THEN [toggles |-> 0] ELSE pauseLog
  /\ UNCHANGED << lifecycle, pc, speeds, isPaused, refs, container, listeners, win,
                  tooltip, event, error >>

\* ---------------------------------------------------------------- picking

\* IntersectObjects that tests every object the ray meets, whatever the list
IntersectObjects_WholeScene(ray, objects) == ray

\* raycaster.intersectObjects(objects): the objects of the list the ray
\* meets, nearest first
IntersectObjects(ray, objects) ==
  SelectSeq(ray, LAMBDA o : \E k \in DOMAIN objects : objects[k].id = o)

TooltipMargin == 10

\* onMouseMove of instance record I, on tooltip element tt
OnMouseMove(I, ev, tt) ==
  LET intersects == IntersectObjects(ev.ray, [k \in Planets |-> I.planets[k].mesh])
      found == { k \in Planets : I.planets[k].mesh.id = intersects[1] }
  IN  IF Len(intersects) > 0
      THEN IF found # {} /\ refs # "null"
           THEN LET planet == I.planets[CHOOSE k \in found : \A j \in found : k <= j]
                IN  [ left      |-> Px(ev.clientX + TooltipMargin),
                      top       |-> Px(ev.clientY + TooltipMargin),
                      innerHTML |-> planet.data.name,
                      display   |-> "block" ]
           ELSE tt
      ELSE IF refs # "null" THEN [tt EXCEPT !.display = "none"] ELSE tt

\* the tooltip after the listeners ls have run in order
RECURSIVE Dispatch(_, _, _)
Dispatch(ls, ev, tt) ==
  IF ls = << >> THEN tt ELSE Dispatch(Tail(ls), ev, OnMouseMove(inst[Head(ls)], ev, tt))

\* the window delivers a mousemove event to its listeners
MouseMove(ptr, ray) ==
  /\ pc = "idle"
  /\ listeners.mousemove # << >>
  /\ event' = [ type |-> "mousemove", clientX |-> ptr.clientX, clientY |-> ptr.clientY,
                ray |-> ray ]
  /\ tooltip' = Dispatch(listeners.mousemove, event', tooltip)
  /\ UNCHANGED << lifecycle, pc, speeds, isPaused, refs, inst, container, listeners,
                  win, error, pauseLog >>

\* handleResize of instance i, on the children cs of the mount div: the
\* canvas of a torn-down instance is no child, and no state the model keeps
HandleResize(i, size, cs) ==
  [k \in DOMAIN cs |-> IF cs[k].instance = i THEN Canvas(i, size) ELSE cs[k]]

\* the children of the mount div after the listeners ls have run in order
RECURSIVE DispatchResize(_, _, _)
DispatchResize(ls, size, cs) ==
  IF ls = << >> THEN cs
  ELSE DispatchResize(Tail(ls), size, HandleResize(Head(ls), size, cs))

\* the window changes size and delivers a resize event to its listeners
Resize(size) ==
  /\ pc = "idle"
  /\ size # win
  /\ win' = size
  /\ container' = DispatchResize(listeners.resize, size, container)
  /\ UNCHANGED << lifecycle, pc, speeds, isPaused, refs, inst, listeners,
                  tooltip, event, error, pauseLog >>

\* ----------------------------------------------------------- specification

Next ==
  \/ Mount
  \/ EffectBuild
  \/ EffectAddMousemove
  \/ EffectAnimate
  \/ EffectAddResize
  \/ CleanupResize
  \/ CleanupMousemove
  \/ CleanupRemoveChild
  \/ Unmount
  \/ \E name \in SliderNames, val \in SliderValues : HandleSpeedChange(name, val)
  \/ TogglePause
  \/ \E i \in DOMAIN inst : Frame(i)
  \/ \E ptr \in Pointers, ray \in Rays : MouseMove(ptr, ray)
  \/ \E size \in WindowSizes : Resize(size)

Spec == Init /\ [][Next]_vars

\* ------------------------------------------------------------------ claims

\* a construction has completed and the component is on the page
Settled == lifecycle = "mounted" /\ pc = "idle"

\* C1: right after the second of two pause toggles (frames in between, no
\* slider change), isPaused has the value it had before the first toggle and
\* every displayed planet has the angle it had right before the first toggle.
C1_TogglePairRestoresAngles ==
  (Settled /\ pauseLog.toggles = 2) =>
    /\ isPaused = pauseLog.isPaused
    /\ DisplayedAngles = pauseLog.angle

\* C2: for every planet of every instance whose animate runs unpaused, after
\* N frames angle = initialAngle + N * s, with s the planet's speed in the
\* configuration the instance holds, and from the first frame on the mesh is
\* at x = distance * cos(angle), y = 0, z = distance * sin(angle).
C2_AngleAfterFrames ==
  \A i \in DOMAIN inst : ~inst[i].isPaused =>
    \A k \in Planets :
      LET p == inst[i].planets[k]
          n == inst[i].frames
          s == inst[i].speeds[planetsData[k].name]
      IN  /\ p.data.angle = inst[i].initialAngle[k] + n * s
          /\ n >= 1 => /\ p.mesh.position.x = planetsData[k].distance * Cos(p.data.angle)
                       /\ p.mesh.position.z = planetsData[k].distance * Sin(p.data.angle)
                       /\ p.mesh.position.y = 0

\* C2 witness: an unpaused instance built after a slider change has run its
\* own first frame and a callback frame
C2_Witness ==
  \E i \in DOMAIN inst :
    /\ ~inst[i].isPaused
    /\ inst[i].frames >= 2
    /\ inst[i].speeds # InitialSpeeds

\* C3: while isPaused is true, no step changes the angle or the mesh position
\* of any planet of any instance, the instances torn down included.
C3_PausedFreezesEveryPlanet ==
  [][isPaused => \A i \in DOMAIN inst : inst'[i].planets = inst[i].planets]_vars

\* C4: a torn-down instance executes at most one further frame, and that
\* frame does not request another.
C4_AtMostOneStaleFrame ==
  \A i \in DOMAIN inst : inst[i].torn =>
    /\ inst[i].staleFrames <= 1
    /\ inst[i].staleFrames = 1 => ~inst[i].raf

\* C5: while the component is mounted, at every position of the effect and of
\* its cleanup, the mount div holds at most one canvas and the window at most
\* one mousemove and one resize listener; when a construction has completed
\* there is exactly one of each.
C5_OneSurfaceOneListenerEach ==
  lifecycle = "mounted" =>
    /\ Len(container) <= 1
    /\ Len(listeners.mousemove) <= 1
    /\ Len(listeners.resize) <= 1
    /\ pc = "idle" => /\ Len(container) = 1
                      /\ Len(listeners.mousemove) = 1
                      /\ Len(listeners.resize) = 1

\* C5 witness: the third construction has completed, after a slider change
\* and a pause toggle
C5_Witness ==
  /\ Settled
  /\ Len(inst) = 3
  /\ isPaused
  /\ speeds # InitialSpeeds
  /\ Len(container) = 1

\* C6: once the component is unmounted, no canvas is left in the mount div and
\* no mousemove or resize listener of the component is left on the window.
C6_UnmountLeavesNothing ==
  lifecycle = "unmounted" =>
    /\ container = << >>
    /\ listeners.mousemove = << >>
    /\ listeners.resize = << >>

\* C7: a slider change of planet P to v gives a configuration with
\* speeds[P] = v, every other entry unchanged and the same keys.
C7_SliderChangeIsKeyLocal ==
  [][\A name \in SliderNames, val \in SliderValues :
       HandleSpeedChange(name, val) =>
         /\ speeds'[name] = val
         /\ \A q \in Names \ {name} : speeds'[q] = speeds[q]
         /\ DOMAIN speeds' = DOMAIN speeds]_vars

\* C7 witness: both operated sliders have been moved, the other six entries
\* are those of the planet table
C7_Witness ==
  /\ speeds["Mercury"] = SliderMin
  /\ speeds["Neptune"] = SliderMax
  /\ \A q \in Names \ {"Mercury", "Neptune"} : speeds[q] = InitialSpeeds[q]

\* the planets a ray meets, nearest first
PlanetsOnRay(ray) == SelectSeq(ray, LAMBDA o : o \in Names)

\* C8: after a mousemove event the tooltip is shown iff the ray met a planet
\* (the sun and the stars do not count); shown, it names the nearest planet
\* met and sits at the pointer position plus (10, 10); otherwise it is hidden.
\* Nothing but a mousemove event touches the tooltip, so it is stated of the
\* last event delivered.
C8_TooltipFollowsPick ==
  event.type = "mousemove" =>
    IF PlanetsOnRay(event.ray) # << >>
    THEN /\ tooltip.display = "block"
         /\ tooltip.innerHTML = Head(PlanetsOnRay(event.ray))
         /\ tooltip.left = << event.clientX + 10, "px" >>
         /\ tooltip.top = << event.clientY + 10, "px" >>
    ELSE tooltip.display = "none"

\* C8 witness: the tooltip shows Mars, picked on a ray that met the sun first
C8_Witness ==
  /\ event.type = "mousemove"
  /\ event.ray = << "sun", "Mars" >>
  /\ tooltip.display = "block"
  /\ tooltip.innerHTML = "Mars"
  /\ tooltip.left = << 650, "px" >>

\* C9: every configured speed is within the slider bounds.
C9_SpeedsWithinSliderBounds ==
  \A n \in DOMAIN speeds : SliderMin <= speeds[n] /\ speeds[n] <= SliderMax

\* C9 witness: one slider is at its minimum and another at its maximum
C9_Witness ==
  /\ speeds["Mercury"] = SliderMax
  /\ speeds["Neptune"] = SliderMin

\* a slider change or a pause toggle
ChangeStep ==
  \/ TogglePause
  \/ \E name \in SliderNames, val \in SliderValues : HandleSpeedChange(name, val)

\* C10: every slider change and pause toggle tears the current instance down
\* once and then constructs one new instance, whose angles are drawn anew;
\* the planet states of an instance exist from its construction to its
\* teardown only, so nothing changes them once it is torn down.
C10_OneReconstructionAndScopedPlanets ==
  [][/\ ChangeStep => pc' = "removeResize"
     /\ (pc = "removeResize" /\ lifecycle = "mounted") => inst'[Cur].torn
     /\ (pc = "removeChild" /\ lifecycle = "mounted") => pc' = "build"
     /\ pc = "build" =>
          /\ Len(inst') = Len(inst) + 1
          /\ \A i \in DOMAIN inst : inst[i].torn /\ inst'[i] = inst[i]
          /\ \E seed \in Seeds : \A k \in Planets :
               inst'[Cur + 1].planets[k].data.angle = RandomAngle(seed, k)
     /\ lifecycle = "mounted" =>
          \A i \in DOMAIN inst : inst[i].torn => inst'[i].planets = inst[i].planets]_vars

\* C11: once a construction has completed, the animate closure of the live
\* instance holds the current speeds and the current pause flag, so every
\* frame of the live instance uses them.
C11_LiveClosureHoldsCurrentState ==
  Settled =>
    /\ inst[Cur].speeds = speeds
    /\ inst[Cur].isPaused = isPaused
    /\ ~inst[Cur].torn

\* C11 witness: the live instance, built after a slider change and a pause
\* toggle, has run a callback frame
C11_Witness ==
  /\ Settled
  /\ isPaused
  /\ speeds # InitialSpeeds
  /\ inst[Cur].frames >= 2
  /\ inst[Cur].speeds = speeds

\* C12: the keys of the speed configuration are exactly the eight planet
\* names, in the state and in every closure, so speeds[data.name] finds an
\* entry for every planet of every instance.
C12_SpeedKeysAreThePlanetNames ==
  /\ Cardinality(Names) = 8
  /\ DOMAIN speeds = Names
  /\ \A i \in DOMAIN inst :
       /\ DOMAIN inst[i].speeds = Names
       /\ \A k \in Planets : inst[i].planets[k].data.name \in DOMAIN inst[i].speeds

\* C12 witness: an unpaused live instance has looked up the speeds in a frame
\* after a slider change
C12_Witness ==
  /\ Settled
  /\ ~isPaused
  /\ speeds["Neptune"] = SliderMax
  /\ inst[Cur].frames >= 2

\* a frame, a mousemove event or a resize event
PassiveStep ==
  \/ \E i \in DOMAIN inst : Frame(i)
  \/ \E ptr \in Pointers, ray \in Rays : MouseMove(ptr, ray)
  \/ \E size \in WindowSizes : Resize(size)

\* C13: frames, mousemove events and resize events leave the speeds and the
\* pause flag as they are; only a slider change changes the speeds and only
\* the pause button changes the pause flag.
C13_OnlyControlsWriteState ==
  [][/\ PassiveStep => (speeds' = speeds /\ isPaused' = isPaused)
     /\ speeds' # speeds =>
          \E name \in SliderNames, val \in SliderValues : HandleSpeedChange(name, val)
     /\ isPaused' # isPaused => TogglePause]_vars

\* C13 witness: frames, a mousemove event and a resize event have happened
\* after a slider change and a pause toggle
C13_Witness ==
  /\ Settled
  /\ isPaused
  /\ speeds # InitialSpeeds
  /\ event.type = "mousemove"
  /\ win # InitialWindow
  /\ CallbackFrames >= 1

\* the number of times object o is a child of the scene of instance record I
TimesInScene(I, o) == Cardinality({ j \in DOMAIN I.scene : I.scene[j] = o })

\* C14: from its construction on, the scene of an instance holds each of its
\* eight planet meshes exactly once, and no step changes the children of the
\* scene of an existing instance.
C14_EachMeshOnceInScene ==
  /\ [](\A i \in DOMAIN inst : \A k \in Planets :
          TimesInScene(inst[i], inst[i].planets[k].mesh.id) = 1)
  /\ [][\A i \in DOMAIN inst : inst'[i].scene = inst[i].scene]_vars

\* C14 witness: the live instance has run a callback frame and has had a
\* mousemove event and a resize event, with its eleven scene children
C14_Witness ==
  /\ Settled
  /\ ~isPaused
  /\ event.type = "mousemove"
  /\ win # InitialWindow
  /\ inst[Cur].frames >= 2
  /\ Len(inst[Cur].scene) = 11

\* C15: every instance constructed so far has a frame callback requested, the
\* torn-down ones included, and no step takes the request away; a frame of a
\* torn-down instance built unpaused advances the angles of its planets.
C15_CallbacksNeverStop ==
  /\ [](pc = "idle" => \A i \in DOMAIN inst : inst[i].raf)
  /\ [][\A i \in DOMAIN inst :
          /\ inst[i].raf => inst'[i].raf
          /\ (inst[i].torn /\ ~inst[i].isPaused /\ inst'[i].frames = inst[i].frames + 1) =>
               \A k \in Planets :
                 inst'[i].planets[k].data.angle =
                   inst[i].planets[k].data.angle + inst[i].speeds[planetsData[k].name]]_vars

\* C15 witness: a torn-down instance has run two frames since its teardown
\* and has the next one requested
C15_Witness ==
  \E i \in DOMAIN inst :
    /\ inst[i].torn
    /\ inst[i].staleFrames >= 2
    /\ inst[i].raf
    /\ ~inst[i].isPaused

\* the mesh of planet record p is at the origin
AtOrigin(p) == p.mesh.position = [x |-> 0, y |-> 0, z |-> 0]

\* the mesh of planet record p is on the circle of its orbit, to the
\* precision of the sines: within one scene unit of radius distance
OnOrbit(p) ==
  LET x == p.mesh.position.x
      z == p.mesh.position.z
      d == 1000 * p.data.distance
  IN  /\ p.mesh.position.y = 0
      /\ (d - 1000) * (d - 1000) <= x * x + z * z
      /\ x * x + z * z <= (d + 1000) * (d + 1000)

\* C16: every planet mesh of an instance built while isPaused is true is at
\* the origin, whatever its angle and distance and however many frames run;
\* so while the component is paused no displayed planet is on its orbit.
C16_PausedPlanetsAtOrigin ==
  /\ \A i \in DOMAIN inst : inst[i].isPaused =>
       \A k \in Planets : AtOrigin(inst[i].planets[k])
  /\ (Settled /\ isPaused) =>
       \A k \in Planets : ~OnOrbit(inst[Cur].planets[k])

\* C16 witness: a paused live instance has run a callback frame, and an
\* earlier unpaused instance has its planets on their orbits
C16_Witness ==
  /\ Settled
  /\ isPaused
  /\ inst[Cur].frames >= 2
  /\ \A k \in Planets : OnOrbit(inst[1].planets[k])

====
